---- MODULE Spec2Model ----
(***************************************************************************)
(* Governors for device PM domains (drivers/base/power/domain_governor.c). *)
(*                                                                         *)
(* State: the per-device timing data (struct gpd_timing_data) and the      *)
(* per-domain governor fields (struct generic_pm_domain) that              *)
(* default_suspend_ok() and default_power_down_ok() read and write, over a *)
(* fixed device tree and domain tree.                                      *)
(*                                                                         *)
(* Four specifications:                                                    *)
(*   Spec          the governor routines called in any order, each call    *)
(*                 one step, with QoS updates in between;                  *)
(*   SpecBottomUp  the same under the caller's ordering guarantee;         *)
(*   SpecDevice    default_suspend_ok() alone, with QoS updates and with   *)
(*                 writers that change a constraint and set no flag;       *)
(*   SpecLock      default_suspend_ok() split at its lock boundaries and   *)
(*                 run by several threads.                                 *)
(***************************************************************************)
EXTENDS Integers, Sequences, FiniteSets, TLC

VARIABLES
    constraint,       \* dev -> PM QoS resume-latency constraint, in usec
    td,               \* dev in a domain -> struct gpd_timing_data (governor fields)
    lat,              \* dev in a domain -> td->suspend_latency_ns, td->resume_latency_ns
    ignore_children,  \* dev -> dev->power.ignore_children
    genpd,            \* domain -> struct generic_pm_domain (governor fields)
    gov,              \* domain -> genpd->gov, the governor of the domain
    last,             \* the call that made the last step, with its return value
    prevRet,          \* dev -> what default_suspend_ok() returned since the flag was last set
    pc,               \* thread -> position inside default_suspend_ok()
    tdev,             \* thread -> the device it evaluates
    tns,              \* thread -> its local constraint_ns
    tret,             \* thread -> the value it returned
    lock              \* dev -> the thread that holds dev->power.lock, or 0

vars == <<constraint, td, lat, ignore_children, genpd, gov, last, prevRet,
          pc, tdev, tns, tret, lock>>

(***************************************************************************)
(* Bounds and program constants.                                           *)
(***************************************************************************)
\* QoS constraints are drawn from 0..MaxConstraintUs and "no constraint".
MaxConstraintUs == 1

\* Threads that may run default_suspend_ok() at once under SpecLock.
MaxThreads == 2

NSEC_PER_USEC == 1000

\* include/linux/pm_qos.h sets this to S32_MAX.  The model keeps it the
\* largest value dev_pm_qos_read_value() can return, which is all the
\* governor relies on, scaled so that its nanosecond product stays inside
\* the model checker's integers.
PM_QOS_RESUME_LATENCY_NO_CONSTRAINT == 2147483

PM_QOS_RESUME_LATENCY_NO_CONSTRAINT_NS ==
    PM_QOS_RESUME_LATENCY_NO_CONSTRAINT * NSEC_PER_USEC

ConstraintValues == (0..MaxConstraintUs) \cup {PM_QOS_RESUME_LATENCY_NO_CONSTRAINT}

(***************************************************************************)
(* The device tree and the domain tree.                                    *)
(*   d1 is in domain D and has two device-tree children: c1, in no domain, *)
(*   and c2, in domain P.  D is a subdomain of P, P a subdomain of G.      *)
(***************************************************************************)
Dev == {"d1", "c1", "c2"}
Dom == {"D", "P", "G"}

\* device_for_each_child(): the children of a device, in list order.
ChildList(d) == IF d = "d1" THEN <<"c1", "c2">> ELSE <<>>

\* dev->power.subsys_data->domain_data is set: the device is in a domain.
InDomain(d) == d \in {"d1", "c2"}
DomDev == {d \in Dev : InDomain(d)}

\* genpd->dev_list: the member devices of a domain, in list order.
DevList(g) == IF g = "D" THEN <<"d1">> ELSE IF g = "P" THEN <<"c2">> ELSE <<>>

\* genpd->parent_links: the links on which g is the parent; link->child.
SubdomainList(g) == IF g = "P" THEN <<"D">> ELSE IF g = "G" THEN <<"P">> ELSE <<>>

\* genpd->child_links: the links on which g is the child; link->parent.
ParentList(g) == IF g = "D" THEN <<"P">> ELSE IF g = "P" THEN <<"G">> ELSE <<>>

Range(s) == {s[i] : i \in 1..Len(s)}

\* genpd->states[] and genpd->state_count: power_off_latency_ns, power_on_latency_ns.
GenpdStates(g) ==
    IF g = "D" THEN [i \in 0..1 |-> IF i = 0 THEN [power_off_latency_ns |-> 10, power_on_latency_ns |-> 10]
                                             ELSE [power_off_latency_ns |-> 100, power_on_latency_ns |-> 100]]
    ELSE IF g = "P" THEN [i \in 0..1 |-> IF i = 0 THEN [power_off_latency_ns |-> 60, power_on_latency_ns |-> 80]
                                                  ELSE [power_off_latency_ns |-> 550, power_on_latency_ns |-> 100]]
    ELSE [i \in 0..0 |-> [power_off_latency_ns |-> 1, power_on_latency_ns |-> 2]]

state_count(g) == Cardinality(DOMAIN GenpdStates(g))

\* td->suspend_latency_ns and td->resume_latency_ns of the devices.
Latency == [d \in DomDev |->
               IF d = "d1" THEN [suspend_latency_ns |-> 200, resume_latency_ns |-> 300]
               ELSE [suspend_latency_ns |-> 150, resume_latency_ns |-> 200]]

\* The same with a slow d1: its latencies use up a constraint of 1 usec.
SlowLatency == [Latency EXCEPT !["d1"] =
                   [suspend_latency_ns |-> 500, resume_latency_ns |-> 500]]

(***************************************************************************)
(* default_suspend_ok() and its helper.                                    *)
(***************************************************************************)
\* Variant: the QoS constraint of the child is taken even when the child is
\* in a domain and has a stored budget.
dev_update_qos_constraint_qosOnly(dev, constraint_ns_p) ==
    LET constraint_ns == constraint[dev] * NSEC_PER_USEC
    IN  IF constraint_ns < constraint_ns_p THEN constraint_ns ELSE constraint_ns_p

\* dev_update_qos_constraint(dev, data): the new value of *constraint_ns_p.
dev_update_qos_constraint(dev, constraint_ns_p) ==
    LET constraint_ns ==
            IF InDomain(dev)
            THEN td[dev].effective_constraint_ns
            ELSE constraint[dev] * NSEC_PER_USEC
    IN  IF constraint_ns < constraint_ns_p THEN constraint_ns ELSE constraint_ns_p

\* device_for_each_child(dev, &constraint_ns, dev_update_qos_constraint),
\* from the i-th child on.
RECURSIVE device_for_each_child(_, _, _)
device_for_each_child(children, i, constraint_ns) ==
    IF i > Len(children) THEN constraint_ns
    ELSE device_for_each_child(children, i + 1,
                               dev_update_qos_constraint(children[i], constraint_ns))

\* Variant: no fast path, every call recomputes.
SuspendOkLocked_noCache(dev) ==
    [done |-> FALSE, ret |-> FALSE,
     td |-> [constraint_changed |-> FALSE, cached_suspend_ok |-> FALSE,
             effective_constraint_ns |-> 0],
     constraint_ns |-> constraint[dev]]

\* Variant: the flag is cleared but the cached result is not reset.
SuspendOkLocked_noReset(dev) ==
    IF ~td[dev].constraint_changed
    THEN [done |-> TRUE, ret |-> td[dev].cached_suspend_ok, td |-> td[dev],
          constraint_ns |-> 0]
    ELSE [done |-> FALSE, ret |-> FALSE,
          td |-> [td[dev] EXCEPT !.constraint_changed = FALSE],
          constraint_ns |-> constraint[dev]]

\* Lines 60-69, run under dev->power.lock: the fast path, or the reset and
\* the read of the device's own constraint.
SuspendOkLocked(dev) ==
    IF ~td[dev].constraint_changed
    THEN [done |-> TRUE, ret |-> td[dev].cached_suspend_ok, td |-> td[dev],
          constraint_ns |-> 0]
    ELSE [done |-> FALSE, ret |-> FALSE,
          td |-> [constraint_changed |-> FALSE, cached_suspend_ok |-> FALSE,
                  effective_constraint_ns |-> 0],
          constraint_ns |-> constraint[dev]]

\* Variant: the children are walked whether ignore_children is set or not.
SuspendOkFold_alwaysWalks(dev, constraint_us) ==
    device_for_each_child(ChildList(dev), 1, constraint_us * NSEC_PER_USEC)

\* Lines 76-84: the conversion to nanoseconds and the walk over the children.
SuspendOkFold(dev, constraint_us) ==
    LET constraint_ns == constraint_us * NSEC_PER_USEC
    IN  IF ~ignore_children[dev]
        THEN device_for_each_child(ChildList(dev), 1, constraint_ns)
        ELSE constraint_ns

\* Variant: "no constraint" is not told apart, the latencies are subtracted
\* from it as from any other value.
SuspendOkStore_noSentinel(dev, t, constraint_ns) ==
    IF constraint_ns = 0
    THEN [td |-> t, ret |-> FALSE]
    ELSE LET ns == constraint_ns - (lat[dev].suspend_latency_ns + lat[dev].resume_latency_ns)
         IN  IF ns <= 0
             THEN [td |-> t, ret |-> FALSE]
             ELSE [td |-> [t EXCEPT !.effective_constraint_ns = ns,
                                    !.cached_suspend_ok = TRUE],
                   ret |-> TRUE]

\* Variant: with "no constraint" the call returns true but leaves the budget
\* at the 0 of the reset.
SuspendOkStore_sentinelNotStored(dev, t, constraint_ns) ==
    IF constraint_ns = PM_QOS_RESUME_LATENCY_NO_CONSTRAINT_NS
    THEN [td |-> [t EXCEPT !.cached_suspend_ok = TRUE], ret |-> TRUE]
    ELSE IF constraint_ns = 0
    THEN [td |-> t, ret |-> FALSE]
    ELSE LET ns == constraint_ns - (lat[dev].suspend_latency_ns + lat[dev].resume_latency_ns)
         IN  IF ns <= 0
             THEN [td |-> t, ret |-> FALSE]
             ELSE [td |-> [t EXCEPT !.effective_constraint_ns = ns,
                                    !.cached_suspend_ok = TRUE],
                   ret |-> TRUE]

\* Variant: a budget of exactly 0 left after the latencies is stored.
SuspendOkStore_zeroAllowed(dev, t, constraint_ns) ==
    IF constraint_ns = PM_QOS_RESUME_LATENCY_NO_CONSTRAINT_NS
    THEN [td |-> [t EXCEPT !.effective_constraint_ns = PM_QOS_RESUME_LATENCY_NO_CONSTRAINT_NS,
                           !.cached_suspend_ok = TRUE],
          ret |-> TRUE]
    ELSE IF constraint_ns = 0
    THEN [td |-> t, ret |-> FALSE]
    ELSE LET ns == constraint_ns - (lat[dev].suspend_latency_ns + lat[dev].resume_latency_ns)
         IN  IF ns < 0
             THEN [td |-> t, ret |-> FALSE]
             ELSE [td |-> [t EXCEPT !.effective_constraint_ns = ns,
                                    !.cached_suspend_ok = TRUE],
                   ret |-> TRUE]

\* Lines 86-117: the store of the result into td, and the return value.
SuspendOkStore(dev, t, constraint_ns) ==
    IF constraint_ns = PM_QOS_RESUME_LATENCY_NO_CONSTRAINT_NS
    THEN [td |-> [t EXCEPT !.effective_constraint_ns = PM_QOS_RESUME_LATENCY_NO_CONSTRAINT_NS,
                           !.cached_suspend_ok = TRUE],
          ret |-> TRUE]
    ELSE IF constraint_ns = 0
    THEN [td |-> t, ret |-> FALSE]
    ELSE LET ns == constraint_ns - (lat[dev].suspend_latency_ns + lat[dev].resume_latency_ns)
         IN  IF ns <= 0
             THEN [td |-> t, ret |-> FALSE]
             ELSE [td |-> [t EXCEPT !.effective_constraint_ns = ns,
                                    !.cached_suspend_ok = TRUE],
                   ret |-> TRUE]

\* default_suspend_ok(dev) as one call: the new td of dev and the return value.
SuspendOkResult(dev) ==
    LET l == SuspendOkLocked(dev)
    IN  IF l.done THEN [td |-> l.td, ret |-> l.ret, recomputed |-> FALSE]
        ELSE IF l.constraint_ns = 0
        THEN [td |-> l.td, ret |-> FALSE, recomputed |-> TRUE]
        ELSE LET s == SuspendOkStore(dev, l.td, SuspendOkFold(dev, l.constraint_ns))
             IN  [td |-> s.td, ret |-> s.ret, recomputed |-> TRUE]

(***************************************************************************)
(* default_power_down_ok() and its helper.                                 *)
(***************************************************************************)
\* Variant: a subdomain budget of 0 is passed over like a negative one.
RECURSIVE SubdomainLoop_zeroSkipped(_, _, _, _)
SubdomainLoop_zeroSkipped(links, i, off_on_time_ns, min_off_time_ns) ==
    IF i > Len(links) THEN [ok |-> TRUE, min_off_time_ns |-> min_off_time_ns]
    ELSE LET sd_max_off_ns == genpd[links[i]].max_off_time_ns
         IN  IF sd_max_off_ns <= 0
             THEN SubdomainLoop_zeroSkipped(links, i + 1, off_on_time_ns, min_off_time_ns)
             ELSE IF sd_max_off_ns <= off_on_time_ns
             THEN [ok |-> FALSE, min_off_time_ns |-> min_off_time_ns]
             ELSE SubdomainLoop_zeroSkipped(links, i + 1, off_on_time_ns,
                      IF min_off_time_ns > sd_max_off_ns \/ min_off_time_ns < 0
                      THEN sd_max_off_ns ELSE min_off_time_ns)

\* Lines 138-155: the loop over the subdomains, from the i-th link on.
RECURSIVE SubdomainLoop(_, _, _, _)
SubdomainLoop(links, i, off_on_time_ns, min_off_time_ns) ==
    IF i > Len(links) THEN [ok |-> TRUE, min_off_time_ns |-> min_off_time_ns]
    ELSE LET sd_max_off_ns == genpd[links[i]].max_off_time_ns
         IN  IF sd_max_off_ns < 0
             THEN SubdomainLoop(links, i + 1, off_on_time_ns, min_off_time_ns)
             ELSE IF sd_max_off_ns <= off_on_time_ns
             THEN [ok |-> FALSE, min_off_time_ns |-> min_off_time_ns]
             ELSE SubdomainLoop(links, i + 1, off_on_time_ns,
                      IF min_off_time_ns > sd_max_off_ns \/ min_off_time_ns < 0
                      THEN sd_max_off_ns ELSE min_off_time_ns)

\* Variant: a device budget equal to the round trip of the state passes.
RECURSIVE DeviceLoop_equalAllowed(_, _, _, _)
DeviceLoop_equalAllowed(devs, i, off_on_time_ns, min_off_time_ns) ==
    IF i > Len(devs) THEN [ok |-> TRUE, min_off_time_ns |-> min_off_time_ns]
    ELSE LET constraint_ns == td[devs[i]].effective_constraint_ns
         IN  IF constraint_ns = PM_QOS_RESUME_LATENCY_NO_CONSTRAINT_NS
             THEN DeviceLoop_equalAllowed(devs, i + 1, off_on_time_ns, min_off_time_ns)
             ELSE IF constraint_ns < off_on_time_ns
             THEN [ok |-> FALSE, min_off_time_ns |-> min_off_time_ns]
             ELSE DeviceLoop_equalAllowed(devs, i + 1, off_on_time_ns,
                      IF min_off_time_ns > constraint_ns \/ min_off_time_ns < 0
                      THEN constraint_ns ELSE min_off_time_ns)

\* Lines 160-183: the loop over the devices of the domain, from the i-th on.
RECURSIVE DeviceLoop(_, _, _, _)
DeviceLoop(devs, i, off_on_time_ns, min_off_time_ns) ==
    IF i > Len(devs) THEN [ok |-> TRUE, min_off_time_ns |-> min_off_time_ns]
    ELSE LET constraint_ns == td[devs[i]].effective_constraint_ns
         IN  IF constraint_ns = PM_QOS_RESUME_LATENCY_NO_CONSTRAINT_NS
             THEN DeviceLoop(devs, i + 1, off_on_time_ns, min_off_time_ns)
             ELSE IF constraint_ns <= off_on_time_ns
             THEN [ok |-> FALSE, min_off_time_ns |-> min_off_time_ns]
             ELSE DeviceLoop(devs, i + 1, off_on_time_ns,
                      IF min_off_time_ns > constraint_ns \/ min_off_time_ns < 0
                      THEN constraint_ns ELSE min_off_time_ns)

\* Variant: only the power-off latency of the state is required.
__default_power_down_ok_offOnly(g, state, max_off_time_ns) ==
    LET off_on_time_ns == GenpdStates(g)[state].power_off_latency_ns
        sub == SubdomainLoop(SubdomainList(g), 1, off_on_time_ns, -1)
        dev == DeviceLoop(DevList(g), 1, off_on_time_ns, sub.min_off_time_ns)
    IN  IF ~sub.ok THEN [ok |-> FALSE, max_off_time_ns |-> max_off_time_ns]
        ELSE IF ~dev.ok THEN [ok |-> FALSE, max_off_time_ns |-> max_off_time_ns]
        ELSE IF dev.min_off_time_ns < 0
        THEN [ok |-> TRUE, max_off_time_ns |-> max_off_time_ns]
        ELSE [ok |-> TRUE,
              max_off_time_ns |-> dev.min_off_time_ns -
                                  GenpdStates(g)[state].power_on_latency_ns]

\* Variant: the power-on latency of the deepest state is subtracted, whatever
\* state is being tried.
__default_power_down_ok_deepestOn(g, state, max_off_time_ns) ==
    LET off_on_time_ns == GenpdStates(g)[state].power_off_latency_ns +
                          GenpdStates(g)[state].power_on_latency_ns
        sub == SubdomainLoop(SubdomainList(g), 1, off_on_time_ns, -1)
        dev == DeviceLoop(DevList(g), 1, off_on_time_ns, sub.min_off_time_ns)
    IN  IF ~sub.ok THEN [ok |-> FALSE, max_off_time_ns |-> max_off_time_ns]
        ELSE IF ~dev.ok THEN [ok |-> FALSE, max_off_time_ns |-> max_off_time_ns]
        ELSE IF dev.min_off_time_ns < 0
        THEN [ok |-> TRUE, max_off_time_ns |-> max_off_time_ns]
        ELSE [ok |-> TRUE,
              max_off_time_ns |-> dev.min_off_time_ns -
                                  GenpdStates(g)[state_count(g) - 1].power_on_latency_ns]

\* __default_power_down_ok(pd, state): the return value and the value of
\* genpd->max_off_time_ns after the call, given its value before.
__default_power_down_ok(g, state, max_off_time_ns) ==
    LET off_on_time_ns == GenpdStates(g)[state].power_off_latency_ns +
                          GenpdStates(g)[state].power_on_latency_ns
        sub == SubdomainLoop(SubdomainList(g), 1, off_on_time_ns, -1)
        dev == DeviceLoop(DevList(g), 1, off_on_time_ns, sub.min_off_time_ns)
    IN  IF ~sub.ok THEN [ok |-> FALSE, max_off_time_ns |-> max_off_time_ns]
        ELSE IF ~dev.ok THEN [ok |-> FALSE, max_off_time_ns |-> max_off_time_ns]
        ELSE IF dev.min_off_time_ns < 0
        THEN [ok |-> TRUE, max_off_time_ns |-> max_off_time_ns]
        ELSE [ok |-> TRUE,
              max_off_time_ns |-> dev.min_off_time_ns -
                                  GenpdStates(g)[state].power_on_latency_ns]

\* Variant: after a failed state the index is decremented before it is
\* compared with 0, so a search that fails at state 0 leaves the index below 0.
RECURSIVE PowerDownSearch_decrementsFirst(_, _, _)
PowerDownSearch_decrementsFirst(g, state_idx, max_off_time_ns) ==
    LET r == __default_power_down_ok(g, state_idx, max_off_time_ns)
    IN  IF r.ok
        THEN [cached_power_down_ok |-> TRUE, state_idx |-> state_idx,
              max_off_time_ns |-> r.max_off_time_ns, tried |-> <<state_idx>>]
        ELSE IF state_idx - 1 < 0
        THEN [cached_power_down_ok |-> FALSE, state_idx |-> state_idx - 1,
              max_off_time_ns |-> r.max_off_time_ns, tried |-> <<state_idx>>]
        ELSE LET rest == PowerDownSearch_decrementsFirst(g, state_idx - 1, r.max_off_time_ns)
             IN  [rest EXCEPT !.tried = <<state_idx>> \o @]

\* Lines 234-240: the search for a state, from state_idx down.  tried lists
\* the states __default_power_down_ok() has been called for, in order.
RECURSIVE PowerDownSearch(_, _, _)
PowerDownSearch(g, state_idx, max_off_time_ns) ==
    LET r == __default_power_down_ok(g, state_idx, max_off_time_ns)
    IN  IF r.ok
        THEN [cached_power_down_ok |-> TRUE, state_idx |-> state_idx,
              max_off_time_ns |-> r.max_off_time_ns, tried |-> <<state_idx>>]
        ELSE IF state_idx = 0
        THEN [cached_power_down_ok |-> FALSE, state_idx |-> state_idx,
              max_off_time_ns |-> r.max_off_time_ns, tried |-> <<state_idx>>]
        ELSE LET rest == PowerDownSearch(g, state_idx - 1, r.max_off_time_ns)
             IN  [rest EXCEPT !.tried = <<state_idx>> \o @]

\* The domains above g: its parents and theirs.
RECURSIVE Ancestors(_)
Ancestors(g) ==
    Range(ParentList(g)) \cup UNION {Ancestors(p) : p \in Range(ParentList(g))}

\* Variant: every domain above g is marked, not only the direct parents.
MarkParents_ancestors(gp, g) ==
    [x \in Dom |-> IF x \in Ancestors(g)
                   THEN [gp[x] EXCEPT !.max_off_time_changed = TRUE]
                   ELSE gp[x]]

\* Variant: no parent is marked.
MarkParents_none(gp, g) == gp

\* Lines 225-226: the parents of g get max_off_time_changed = true.
MarkParents(gp, g) ==
    [x \in Dom |-> IF x \in Range(ParentList(g))
                   THEN [gp[x] EXCEPT !.max_off_time_changed = TRUE]
                   ELSE gp[x]]

\* Variant: the parents are marked only when the budget offered to them has
\* changed.
PowerDownOkResult_markOnChange(g) ==
    IF ~genpd[g].max_off_time_changed
    THEN [genpd |-> [genpd EXCEPT ![g].state_idx = genpd[g].cached_power_down_state_idx],
          ret |-> genpd[g].cached_power_down_ok, recomputed |-> FALSE,
          tried |-> <<>>]
    ELSE LET s == PowerDownSearch(g, state_count(g) - 1, -1)
             marked == IF s.max_off_time_ns # genpd[g].max_off_time_ns
                       THEN MarkParents(genpd, g) ELSE genpd
         IN  [genpd |-> [marked EXCEPT ![g] =
                            [max_off_time_changed |-> FALSE,
                             cached_power_down_ok |-> s.cached_power_down_ok,
                             cached_power_down_state_idx |-> s.state_idx,
                             state_idx |-> s.state_idx,
                             max_off_time_ns |-> s.max_off_time_ns]],
              ret |-> s.cached_power_down_ok, recomputed |-> TRUE,
              tried |-> s.tried]

\* Variant: the parents are marked before the flag of the domain is tested.
PowerDownOkResult_alwaysMarks(g) ==
    LET marked == MarkParents(genpd, g)
    IN  IF ~genpd[g].max_off_time_changed
        THEN [genpd |-> [marked EXCEPT ![g].state_idx = genpd[g].cached_power_down_state_idx],
              ret |-> genpd[g].cached_power_down_ok, recomputed |-> FALSE,
          tried |-> <<>>]
        ELSE LET s == PowerDownSearch(g, state_count(g) - 1, -1)
             IN  [genpd |-> [marked EXCEPT ![g] =
                                [max_off_time_changed |-> FALSE,
                                 cached_power_down_ok |-> s.cached_power_down_ok,
                                 cached_power_down_state_idx |-> s.state_idx,
                                 state_idx |-> s.state_idx,
                                 max_off_time_ns |-> s.max_off_time_ns]],
                  ret |-> s.cached_power_down_ok, recomputed |-> TRUE,
              tried |-> s.tried]

\* Variant: max_off_time_ns is not reset before the search, which starts from
\* the value the domain offered so far.
PowerDownOkResult_noBudgetReset(g) ==
    IF ~genpd[g].max_off_time_changed
    THEN [genpd |-> [genpd EXCEPT ![g].state_idx = genpd[g].cached_power_down_state_idx],
          ret |-> genpd[g].cached_power_down_ok, recomputed |-> FALSE,
          tried |-> <<>>]
    ELSE LET marked == MarkParents(genpd, g)
             s == PowerDownSearch(g, state_count(g) - 1, genpd[g].max_off_time_ns)
         IN  [genpd |-> [marked EXCEPT ![g] =
                            [max_off_time_changed |-> FALSE,
                             cached_power_down_ok |-> s.cached_power_down_ok,
                             cached_power_down_state_idx |-> s.state_idx,
                             state_idx |-> s.state_idx,
                             max_off_time_ns |-> s.max_off_time_ns]],
              ret |-> s.cached_power_down_ok, recomputed |-> TRUE,
              tried |-> s.tried]

\* default_power_down_ok(pd): the domains after the call, and the return value.
PowerDownOkResult(g) ==
    IF ~genpd[g].max_off_time_changed
    THEN [genpd |-> [genpd EXCEPT ![g].state_idx = genpd[g].cached_power_down_state_idx],
          ret |-> genpd[g].cached_power_down_ok, recomputed |-> FALSE,
          tried |-> <<>>]
    ELSE LET marked == MarkParents(genpd, g)
             s == PowerDownSearch(g, state_count(g) - 1, -1)
         IN  [genpd |-> [marked EXCEPT ![g] =
                            [max_off_time_changed |-> FALSE,
                             cached_power_down_ok |-> s.cached_power_down_ok,
                             cached_power_down_state_idx |-> s.state_idx,
                             state_idx |-> s.state_idx,
                             max_off_time_ns |-> s.max_off_time_ns]],
              ret |-> s.cached_power_down_ok, recomputed |-> TRUE,
              tried |-> s.tried]

(***************************************************************************)
(* The state after registration, and the calls as steps.                   *)
(***************************************************************************)
Thread == 1..MaxThreads

NoCall == [op |-> "none", who |-> "none", ret |-> FALSE, recomputed |-> FALSE,
           pre |-> <<>>, parents |-> <<>>, prev |-> {}, tried |-> <<>>]

threadVars == <<pc, tdev, tns, tret, lock>>
configVars == <<lat, ignore_children, gov>>

\* The state of the threads while no thread is inside default_suspend_ok().
ThreadsIdle ==
    /\ pc = [t \in Thread |-> "idle"]
    /\ tdev = [t \in Thread |-> "d1"]
    /\ tns = [t \in Thread |-> 0]
    /\ tret = [t \in Thread |-> FALSE]
    /\ lock = [d \in DomDev |-> 0]

\* A device added to a domain starts with constraint_changed set and no
\* constraint; a domain starts with max_off_time_changed set and
\* max_off_time_ns = -1.
Registered ==
    /\ constraint = [d \in Dev |-> PM_QOS_RESUME_LATENCY_NO_CONSTRAINT]
    /\ td = [d \in DomDev |-> [constraint_changed |-> TRUE,
                               cached_suspend_ok |-> FALSE,
                               effective_constraint_ns |-> PM_QOS_RESUME_LATENCY_NO_CONSTRAINT_NS]]
    /\ genpd = [g \in Dom |-> [max_off_time_changed |-> TRUE,
                               cached_power_down_ok |-> FALSE,
                               cached_power_down_state_idx |-> 0,
                               state_idx |-> 0,
                               max_off_time_ns |-> -1]]
    /\ last = NoCall
    /\ prevRet = [d \in DomDev |-> {}]
    /\ ThreadsIdle

\* D and P are governed by simple_qos_governor, G by pm_domain_always_on_gov.
Init ==
    /\ Registered
    /\ lat = Latency
    /\ ignore_children = [d \in Dev |-> FALSE]
    /\ gov = [g \in Dom |-> IF g = "G" THEN "always_on" ELSE "simple_qos"]

\* A call of default_suspend_ok(dev), as one step.
default_suspend_ok(dev) ==
    LET r == SuspendOkResult(dev)
    IN  /\ td' = [td EXCEPT ![dev] = r.td]
        /\ last' = [op |-> "suspend_ok", who |-> dev, ret |-> r.ret,
                    recomputed |-> r.recomputed,
                    pre |-> IF r.recomputed THEN <<>> ELSE td[dev],
                    parents |-> <<>>, prev |-> prevRet[dev], tried |-> <<>>]
        /\ prevRet' = [prevRet EXCEPT ![dev] = {r.ret}]
        /\ UNCHANGED <<constraint, genpd, configVars, threadVars>>

\* A call of default_power_down_ok(pd), as one step.
default_power_down_ok(g) ==
    LET r == PowerDownOkResult(g)
    IN  /\ genpd' = r.genpd
        /\ last' = [op |-> "power_down_ok", who |-> g, ret |-> r.ret,
                    recomputed |-> r.recomputed,
                    pre |-> IF r.recomputed THEN <<>> ELSE genpd[g],
                    parents |-> IF r.recomputed THEN <<>>
                                ELSE [x \in Range(ParentList(g)) |->
                                         genpd[x].max_off_time_changed],
                    prev |-> {}, tried |-> r.tried]
        /\ UNCHANGED <<constraint, td, prevRet, configVars, threadVars>>

\* Variant: the always-on routine evaluates the domain as the default one
\* does.
always_on_power_down_ok_evaluates(g) ==
    LET r == PowerDownOkResult(g)
    IN  /\ genpd' = r.genpd
        /\ last' = [NoCall EXCEPT !.op = "always_on_power_down_ok", !.who = g,
                                  !.ret = r.ret, !.pre = genpd[g],
                                  !.parents = [x \in Range(ParentList(g)) |->
                                                  genpd[x].max_off_time_changed]]
        /\ UNCHANGED <<constraint, td, prevRet, configVars, threadVars>>

\* A call of always_on_power_down_ok(domain), as one step.
always_on_power_down_ok(g) ==
    /\ last' = [NoCall EXCEPT !.op = "always_on_power_down_ok", !.who = g,
                              !.ret = FALSE, !.pre = genpd[g],
                              !.parents = [x \in Range(ParentList(g)) |->
                                              genpd[x].max_off_time_changed]]
    /\ UNCHANGED <<constraint, td, genpd, prevRet, configVars, threadVars>>

\* genpd->gov->power_down_ok(&genpd->domain)
power_down_ok(g) ==
    IF gov[g] = "always_on" THEN always_on_power_down_ok(g)
    ELSE default_power_down_ok(g)

\* The devices whose result depends on the constraint of dev: dev and the
\* devices it is a device-tree descendant of.
RECURSIVE Affected(_)
Affected(dev) ==
    {dev} \cup UNION {Affected(p) : p \in {x \in Dev : dev \in Range(ChildList(x))}}

DomainOf(dev) == CHOOSE g \in Dom : dev \in Range(DevList(g))

\* The QoS-update path: the constraint of dev becomes value, and the dirty
\* flag of every affected device and of its domain is set.
QosUpdate(dev, value) ==
    LET hit == Affected(dev) \cap DomDev
        doms == {DomainOf(d) : d \in hit}
    IN  /\ value # constraint[dev]
        /\ constraint' = [constraint EXCEPT ![dev] = value]
        /\ td' = [d \in DomDev |-> IF d \in hit
                                   THEN [td[d] EXCEPT !.constraint_changed = TRUE]
                                   ELSE td[d]]
        /\ genpd' = [g \in Dom |-> IF g \in doms
                                   THEN [genpd[g] EXCEPT !.max_off_time_changed = TRUE]
                                   ELSE genpd[g]]
        /\ prevRet' = [d \in DomDev |-> IF d \in hit THEN {} ELSE prevRet[d]]
        /\ last' = [NoCall EXCEPT !.op = "qos_update"]
        /\ UNCHANGED <<configVars, threadVars>>

\* A writer that breaks the contract: the constraint of dev changes and no
\* dirty flag is set.
StaleWrite(dev, value) ==
    /\ value # constraint[dev]
    /\ constraint' = [constraint EXCEPT ![dev] = value]
    /\ last' = [NoCall EXCEPT !.op = "stale_write"]
    /\ UNCHANGED <<td, genpd, prevRet, configVars, threadVars>>

\* genpd->gov->suspend_ok(dev): both governors name default_suspend_ok.
suspend_ok(dev) ==
    IF gov[DomainOf(dev)] = "always_on" THEN default_suspend_ok(dev)
    ELSE default_suspend_ok(dev)

CallSuspendOk == \E d \in DomDev : suspend_ok(d)
CallPowerDownOk == \E g \in Dom : power_down_ok(g)
CallQosUpdate == \E d \in Dev, v \in ConstraintValues : QosUpdate(d, v)
CallQosUpdateParent == \E v \in ConstraintValues : QosUpdate("d1", v)
CallQosUpdateInDomain == \E d \in DomDev, v \in ConstraintValues : QosUpdate(d, v)
CallStaleWrite == \E d \in Dev, v \in ConstraintValues : StaleWrite(d, v)

\* QoS requests are made on the devices that are in a domain.
Next ==
    \/ CallSuspendOk
    \/ CallPowerDownOk
    \/ CallQosUpdateInDomain

Spec == Init /\ [][Next]_vars

(***************************************************************************)
(* The same calls with P, which has a subdomain, a device and a parent,    *)
(* governed by pm_domain_always_on_gov.                                    *)
(***************************************************************************)
InitAlwaysOn ==
    /\ Registered
    /\ lat = Latency
    /\ ignore_children = [d \in Dev |-> FALSE]
    /\ gov = [g \in Dom |-> IF g = "P" THEN "always_on" ELSE "simple_qos"]

SpecAlwaysOn == InitAlwaysOn /\ [][Next]_vars

(***************************************************************************)
(* The QoS-driven governor over a subdomain whose max_off_time_ns is       *)
(* written from outside this file: D may be left with a budget of 0, a     *)
(* value default_power_down_ok() itself never stores.  QoS requests are    *)
(* made on c2, the device of P and a device-tree child of d1.              *)
(***************************************************************************)
\* A write of max_off_time_ns = 0 into the record of sd by code outside the
\* governor, which tells the parents as the governor does.
ForeignBudget(sd) ==
    /\ genpd[sd].max_off_time_ns # 0
    /\ genpd' = [MarkParents(genpd, sd) EXCEPT ![sd].max_off_time_ns = 0]
    /\ last' = [NoCall EXCEPT !.op = "foreign_budget"]
    /\ UNCHANGED <<constraint, td, prevRet, configVars, threadVars>>

CallForeignBudget == ForeignBudget("D")
CallQosUpdateMember == \E v \in ConstraintValues : QosUpdate("c2", v)

NextForeign ==
    \/ CallSuspendOk
    \/ CallPowerDownOk
    \/ CallQosUpdateMember
    \/ CallForeignBudget

SpecForeign == Init /\ [][NextForeign]_vars

(***************************************************************************)
(* default_suspend_ok() alone: any device may ignore its children, and a   *)
(* constraint may change without the flag being set.                       *)
(***************************************************************************)
InitDevice ==
    /\ Registered
    /\ lat \in {Latency, SlowLatency}
    /\ ignore_children \in [Dev -> BOOLEAN]
    /\ \A d \in Dev : ChildList(d) = <<>> => ~ignore_children[d]
    /\ gov = [g \in Dom |-> "simple_qos"]

NextDevice ==
    \/ CallSuspendOk
    \/ CallQosUpdate
    \/ CallStaleWrite

SpecDevice == InitDevice /\ [][NextDevice]_vars

(***************************************************************************)
(* The caller's ordering guarantee: a device is evaluated after its        *)
(* device-tree children, a domain after its devices and its subdomains.    *)
(* Every domain is governed by simple_qos_governor; QoS requests are made  *)
(* on the devices that are in a domain.                                    *)
(***************************************************************************)
InitBottomUp ==
    /\ Registered
    /\ lat = Latency
    /\ ignore_children = [d \in Dev |-> FALSE]
    /\ gov = [g \in Dom |-> "simple_qos"]

\* No device-tree child of dev that is in a domain waits for its evaluation.
ChildrenEvaluated(dev) ==
    \A c \in Range(ChildList(dev)) : InDomain(c) => ~td[c].constraint_changed

\* No device and no subdomain of g waits for its evaluation.
MembersEvaluated(g) ==
    /\ \A d \in Range(DevList(g)) : ~td[d].constraint_changed
    /\ \A sd \in Range(SubdomainList(g)) : ~genpd[sd].max_off_time_changed

OrderedSuspendOk == \E d \in DomDev : ChildrenEvaluated(d) /\ default_suspend_ok(d)
OrderedPowerDownOk == \E g \in Dom : MembersEvaluated(g) /\ power_down_ok(g)

NextBottomUp ==
    \/ OrderedSuspendOk
    \/ OrderedPowerDownOk
    \/ CallQosUpdateInDomain

SpecBottomUp == InitBottomUp /\ [][NextBottomUp]_vars

(***************************************************************************)
(* default_suspend_ok() run by several threads, one step per stretch of    *)
(* code between two lock operations or two accesses of shared data.        *)
(*   idle -> lock -> locked -> unlock -> fold -> store -> done -> idle     *)
(***************************************************************************)
\* The call: the thread arrives at spin_lock_irqsave() (line 58).
Enter(t, dev) ==
    /\ pc[t] = "idle"
    /\ pc' = [pc EXCEPT ![t] = "lock"]
    /\ tdev' = [tdev EXCEPT ![t] = dev]
    /\ UNCHANGED <<constraint, td, genpd, last, prevRet, configVars, tns, tret, lock>>

\* Variant: the thread goes on without taking the lock.
SpinLock_notTaken(t) ==
    /\ pc[t] = "lock"
    /\ pc' = [pc EXCEPT ![t] = "locked"]
    /\ UNCHANGED <<constraint, td, genpd, last, prevRet, configVars, tdev, tns, tret, lock>>

\* spin_lock_irqsave(&dev->power.lock, flags) (line 58).
SpinLock(t) ==
    /\ pc[t] = "lock"
    /\ lock[tdev[t]] = 0
    /\ lock' = [lock EXCEPT ![tdev[t]] = t]
    /\ pc' = [pc EXCEPT ![t] = "locked"]
    /\ UNCHANGED <<constraint, td, genpd, last, prevRet, configVars, tdev, tns, tret>>

\* Lines 60-62 and 66-69, between the lock and the unlock.
LockedSection(t) ==
    LET l == SuspendOkLocked(tdev[t])
    IN  /\ pc[t] = "locked"
        /\ td' = [td EXCEPT ![tdev[t]] = l.td]
        /\ tns' = [tns EXCEPT ![t] = l.constraint_ns]
        /\ tret' = [tret EXCEPT ![t] = l.ret]
        /\ pc' = [pc EXCEPT ![t] = IF l.done THEN "unlock_ret" ELSE "unlock"]
        /\ UNCHANGED <<constraint, genpd, last, prevRet, configVars, tdev, lock>>

\* spin_unlock_irqrestore() (line 63, then the return of line 64; or line 71).
SpinUnlock(t) ==
    /\ pc[t] \in {"unlock", "unlock_ret"}
    /\ lock' = [lock EXCEPT ![tdev[t]] = 0]
    /\ pc' = [pc EXCEPT ![t] = IF pc[t] = "unlock_ret" THEN "done" ELSE "fold"]
    /\ UNCHANGED <<constraint, td, genpd, last, prevRet, configVars, tdev, tns, tret>>

\* Lines 73-84: the zero check and the walk over the children.
FoldChildren(t) ==
    /\ pc[t] = "fold"
    /\ IF tns[t] = 0
       THEN /\ pc' = [pc EXCEPT ![t] = "done"]
            /\ tret' = [tret EXCEPT ![t] = FALSE]
            /\ tns' = tns
       ELSE /\ pc' = [pc EXCEPT ![t] = "store"]
            /\ tns' = [tns EXCEPT ![t] = SuspendOkFold(tdev[t], tns[t])]
            /\ tret' = tret
    /\ UNCHANGED <<constraint, td, genpd, last, prevRet, configVars, tdev, lock>>

\* Lines 86-117: the store of the result and the return.
StoreResult(t) ==
    LET r == SuspendOkStore(tdev[t], td[tdev[t]], tns[t])
    IN  /\ pc[t] = "store"
        /\ td' = [td EXCEPT ![tdev[t]] = r.td]
        /\ tret' = [tret EXCEPT ![t] = r.ret]
        /\ tns' = [tns EXCEPT ![t] = 0]
        /\ pc' = [pc EXCEPT ![t] = "done"]
        /\ UNCHANGED <<constraint, genpd, last, prevRet, configVars, tdev, lock>>

\* The caller takes the return value.
Return(t) ==
    /\ pc[t] = "done"
    /\ pc' = [pc EXCEPT ![t] = "idle"]
    /\ tret' = [tret EXCEPT ![t] = FALSE]
    /\ tns' = [tns EXCEPT ![t] = 0]
    /\ tdev' = [tdev EXCEPT ![t] = "d1"]
    /\ UNCHANGED <<constraint, td, genpd, last, prevRet, configVars, lock>>

ThreadEnter == \E t \in Thread, d \in DomDev : Enter(t, d)
ThreadSpinLock == \E t \in Thread : SpinLock(t)
ThreadLockedSection == \E t \in Thread : LockedSection(t)
ThreadSpinUnlock == \E t \in Thread : SpinUnlock(t)
ThreadFoldChildren == \E t \in Thread : FoldChildren(t)
ThreadStoreResult == \E t \in Thread : StoreResult(t)
ThreadReturn == \E t \in Thread : Return(t)

NextLock ==
    \/ ThreadEnter
    \/ ThreadSpinLock
    \/ ThreadLockedSection
    \/ ThreadSpinUnlock
    \/ ThreadFoldChildren
    \/ ThreadStoreResult
    \/ ThreadReturn
    \/ CallQosUpdateParent

SpecLock == Init /\ [][NextLock]_vars

(***************************************************************************)
(* Properties.                                                             *)
(***************************************************************************)
SetMin(S) == CHOOSE x \in S : \A y \in S : x <= y
SetMax(S) == CHOOSE x \in S : \A y \in S : x >= y

\* The last step was a call of default_power_down_ok() that recomputed.
RecomputedPowerDown ==
    last.op = "power_down_ok" /\ last.recomputed

\* The last step was a call of default_suspend_ok() that recomputed.
RecomputedSuspend ==
    last.op = "suspend_ok" /\ last.recomputed

RoundTrip(g, s) ==
    GenpdStates(g)[s].power_off_latency_ns + GenpdStates(g)[s].power_on_latency_ns

\* State s of g leaves every subdomain and every device of g enough time.
Qualifies(g, s) ==
    /\ \A sd \in Range(SubdomainList(g)) :
          \/ genpd[sd].max_off_time_ns = -1
          \/ genpd[sd].max_off_time_ns > RoundTrip(g, s)
    /\ \A d \in Range(DevList(g)) :
          \/ td[d].effective_constraint_ns = PM_QOS_RESUME_LATENCY_NO_CONSTRAINT_NS
          \/ td[d].effective_constraint_ns > RoundTrip(g, s)

QualifyingStates(g) == {s \in 0..(state_count(g) - 1) : Qualifies(g, s)}

\* C1: a recomputing default_power_down_ok() returns the deepest state that
\* leaves every subdomain and every device more than its round trip (a
\* budget equal to the round trip does not qualify), and refuses, caching
\* cached_power_down_ok = false, when no state does.
C1_DeepestQualifyingState ==
    RecomputedPowerDown =>
        LET g == last.who
        IN  IF QualifyingStates(g) # {}
            THEN /\ last.ret
                 /\ genpd[g].cached_power_down_ok
                 /\ genpd[g].state_idx = SetMax(QualifyingStates(g))
                 /\ genpd[g].cached_power_down_state_idx = SetMax(QualifyingStates(g))
            ELSE /\ ~last.ret
                 /\ ~genpd[g].cached_power_down_ok

\* D, states (10,10) and (100,100), one device with a budget of 150: the
\* deeper state has failed and state 0 is chosen.
C1_Witness ==
    /\ RecomputedPowerDown
    /\ last.who = "D"
    /\ td["d1"].effective_constraint_ns = 150
    /\ last.ret
    /\ genpd["D"].state_idx = 0

\* The smallest value default_suspend_ok() folds for dev: its own constraint
\* and what each device-tree child offers.
FoldedMinimum(dev) ==
    SetMin({constraint[dev] * NSEC_PER_USEC}
           \cup {constraint[c] * NSEC_PER_USEC : c \in {x \in Range(ChildList(dev)) : ~InDomain(x)}}
           \cup {td[c].effective_constraint_ns : c \in {x \in Range(ChildList(dev)) : InDomain(x)}})

\* What default_suspend_ok() leaves in td and returns for a folded minimum m.
SuspendOutcome(dev, m) ==
    LET b == m - (lat[dev].suspend_latency_ns + lat[dev].resume_latency_ns)
    IN  IF m = PM_QOS_RESUME_LATENCY_NO_CONSTRAINT_NS
        THEN /\ last.ret
             /\ td[dev].cached_suspend_ok
             /\ td[dev].effective_constraint_ns = PM_QOS_RESUME_LATENCY_NO_CONSTRAINT_NS
        ELSE IF m = 0 \/ b <= 0
        THEN ~last.ret
        ELSE /\ last.ret
             /\ td[dev].cached_suspend_ok
             /\ td[dev].effective_constraint_ns = b

\* C2 as stated: every recomputing default_suspend_ok() on a device with a
\* non-zero constraint folds the minimum over the device and all its
\* device-tree children.
C2_FoldsEveryChild ==
    (RecomputedSuspend /\ constraint[last.who] # 0) =>
        SuspendOutcome(last.who, FoldedMinimum(last.who))

\* C2, amended: a recomputing default_suspend_ok() on a device with a
\* non-zero constraint and without ignore_children stores and returns what
\* the minimum over the device and its device-tree children gives.
C2_FoldsChildrenUnlessIgnored ==
    (RecomputedSuspend /\ constraint[last.who] # 0 /\ ~ignore_children[last.who]) =>
        SuspendOutcome(last.who, FoldedMinimum(last.who))

\* d1 has folded the stored budget of c2 (650) and kept 150 of it.
C2_Witness ==
    /\ RecomputedSuspend
    /\ last.who = "d1"
    /\ ~ignore_children["d1"]
    /\ constraint["d1"] # 0
    /\ td["c2"].effective_constraint_ns = 650
    /\ td["d1"].effective_constraint_ns = 150
    /\ last.ret

\* C3: default_suspend_ok() on a device whose flag is clear returns
\* cached_suspend_ok and leaves td as it was; a call that follows another
\* with no flag set in between returns the same value and leaves
\* effective_constraint_ns alone.
C3_CacheStable ==
    last.op = "suspend_ok" =>
        /\ ~last.recomputed =>
              /\ last.ret = last.pre.cached_suspend_ok
              /\ td[last.who] = last.pre
        /\ last.prev # {} =>
              /\ ~last.recomputed
              /\ last.prev = {last.ret}
              /\ td[last.who].effective_constraint_ns = last.pre.effective_constraint_ns

\* d1 is served from its cache a second time, "no constraint", although its
\* child c1 has been given a constraint without any flag being set.
C3_Witness ==
    /\ last.op = "suspend_ok"
    /\ last.who = "d1"
    /\ ~last.recomputed
    /\ last.prev = {TRUE}
    /\ ~ignore_children["d1"]
    /\ constraint["c1"] = 1
    /\ td["d1"].effective_constraint_ns = PM_QOS_RESUME_LATENCY_NO_CONSTRAINT_NS

\* A step in which default_power_down_ok(D) is called right after a call of
\* default_suspend_ok() that recomputed a device of D.
EvaluatedAfterDevice(g) ==
    /\ last.op = "suspend_ok"
    /\ last.recomputed
    /\ last.who \in Range(DevList(g))
    /\ last'.op = "power_down_ok"
    /\ last'.who = g

ParentsMarked(g) ==
    \A p \in Range(ParentList(g)) : genpd'[p].max_off_time_changed

\* C4 as stated: once a device of D has been recomputed, the evaluation of D
\* leaves max_off_time_changed set in every parent of D.
C4_DeviceRecomputeReachesParent ==
    [][\A g \in {"D"} : EvaluatedAfterDevice(g) => ParentsMarked(g)]_vars

\* C4, amended: once a device of D has been recomputed, the evaluation of D
\* leaves max_off_time_changed set in every parent of D provided D's own
\* max_off_time_changed is set when D is evaluated.
C4_DirtyDomainMarksParent ==
    [][\A g \in {"D"} :
          (EvaluatedAfterDevice(g) /\ genpd[g].max_off_time_changed) => ParentsMarked(g)]_vars

\* D has just been recomputed after its device d1 was, P had been evaluated
\* before, and P is dirty again.
C4_Witness ==
    /\ RecomputedPowerDown
    /\ last.who = "D"
    /\ ~td["d1"].constraint_changed
    /\ td["d1"].effective_constraint_ns = 150
    /\ genpd["P"].cached_power_down_ok
    /\ genpd["P"].max_off_time_changed

\* The result the search for a state gives on the stored budgets.
FromScratch(g) == PowerDownSearch(g, state_count(g) - 1, -1)

\* C5: under the ordering guarantee, and with every QoS update setting the
\* flag of the device and of its domain, a domain whose
\* max_off_time_changed is clear holds the result a fresh evaluation over
\* the stored budgets of its subdomains and devices would give.
C5_CleanCacheIsCurrent ==
    \A g \in Dom :
        ~genpd[g].max_off_time_changed =>
            /\ genpd[g].cached_power_down_ok = FromScratch(g).cached_power_down_ok
            /\ genpd[g].cached_power_down_state_idx = FromScratch(g).state_idx
            /\ genpd[g].max_off_time_ns = FromScratch(g).max_off_time_ns

\* All three domains are clean and G, two levels above D, holds a finite
\* budget that comes from the device of D.
C5_Witness ==
    /\ \A g \in Dom : ~genpd[g].max_off_time_changed
    /\ td["d1"].effective_constraint_ns = 500
    /\ genpd["D"].max_off_time_ns = 400
    /\ genpd["P"].max_off_time_ns = 320
    /\ genpd["G"].max_off_time_ns = 318

\* C6: a recomputing default_suspend_ok() on a device whose own constraint
\* is 0 returns false and leaves cached_suspend_ok = false and
\* effective_constraint_ns = 0, whatever its children offer.
C6_ZeroConstraintVeto ==
    (RecomputedSuspend /\ constraint[last.who] = 0) =>
        /\ ~last.ret
        /\ ~td[last.who].cached_suspend_ok
        /\ td[last.who].effective_constraint_ns = 0

\* d1 has a constraint of 0 and both its children offer "no constraint".
C6_Witness ==
    /\ RecomputedSuspend
    /\ last.who = "d1"
    /\ constraint["d1"] = 0
    /\ ~ignore_children["d1"]
    /\ constraint["c1"] = PM_QOS_RESUME_LATENCY_NO_CONSTRAINT
    /\ td["c2"].effective_constraint_ns = PM_QOS_RESUME_LATENCY_NO_CONSTRAINT_NS

\* The finite budgets default_power_down_ok() sees for g.
FiniteBudgets(g) ==
    {genpd[sd].max_off_time_ns : sd \in {x \in Range(SubdomainList(g)) : genpd[x].max_off_time_ns # -1}}
    \cup {td[d].effective_constraint_ns :
             d \in {x \in Range(DevList(g)) :
                       td[x].effective_constraint_ns # PM_QOS_RESUME_LATENCY_NO_CONSTRAINT_NS}}

\* C7: when a recomputing default_power_down_ok() chooses state s,
\* max_off_time_ns is -1 if no subdomain and no device has a finite budget,
\* and otherwise the smallest finite budget minus the power_on_latency_ns of
\* s, the state chosen in the end.
C7_OfferedBudget ==
    (RecomputedPowerDown /\ last.ret) =>
        LET g == last.who
            s == genpd[g].state_idx
        IN  IF FiniteBudgets(g) = {}
            THEN genpd[g].max_off_time_ns = -1
            ELSE genpd[g].max_off_time_ns =
                     SetMin(FiniteBudgets(g)) - GenpdStates(g)[s].power_on_latency_ns

\* P: its state 1 has failed (400 is not more than 650), state 0 is chosen,
\* and the budget is the 400 of subdomain D, below the 650 of device c2,
\* minus the power-on latency of state 0.
C7_Witness ==
    /\ RecomputedPowerDown
    /\ last.who = "P"
    /\ last.ret
    /\ genpd["D"].max_off_time_ns = 400
    /\ td["c2"].effective_constraint_ns = 650
    /\ genpd["P"].state_idx = 0
    /\ genpd["P"].max_off_time_ns = 320

\* C8: default_power_down_ok() on a domain whose flag is clear returns the
\* cached pair and changes neither max_off_time_ns, cached_power_down_ok,
\* cached_power_down_state_idx, the flag of the domain nor the flag of any
\* parent.
C8_FastPathFrame ==
    (last.op = "power_down_ok" /\ ~last.recomputed) =>
        LET g == last.who
        IN  /\ last.ret = last.pre.cached_power_down_ok
            /\ genpd[g].state_idx = last.pre.cached_power_down_state_idx
            /\ genpd[g].max_off_time_ns = last.pre.max_off_time_ns
            /\ genpd[g].cached_power_down_ok = last.pre.cached_power_down_ok
            /\ genpd[g].cached_power_down_state_idx = last.pre.cached_power_down_state_idx
            /\ genpd[g].max_off_time_changed = last.pre.max_off_time_changed
            /\ \A p \in Range(ParentList(g)) :
                  genpd[p].max_off_time_changed = last.parents[p]

\* D is served from its cache while its parent P is clean, and P stays clean.
C8_Witness ==
    /\ last.op = "power_down_ok"
    /\ ~last.recomputed
    /\ last.who = "D"
    /\ last.ret
    /\ genpd["D"].cached_power_down_state_idx = 0
    /\ ~genpd["P"].max_off_time_changed

\* C9: a recomputing default_suspend_ok() returns cached_suspend_ok;
\* cached_suspend_ok is true exactly when effective_constraint_ns is "no
\* constraint" or positive; when it returns false, cached_suspend_ok is
\* false and effective_constraint_ns is 0.
C9_DecisionMatchesBudget ==
    RecomputedSuspend =>
        LET t == td[last.who]
        IN  /\ last.ret = t.cached_suspend_ok
            /\ t.cached_suspend_ok <=>
                  \/ t.effective_constraint_ns = PM_QOS_RESUME_LATENCY_NO_CONSTRAINT_NS
                  \/ t.effective_constraint_ns > 0
            /\ ~last.ret => (~t.cached_suspend_ok /\ t.effective_constraint_ns = 0)

\* d1 returns false because its latencies use up the whole folded budget:
\* the return of line 107.
C9_Witness ==
    /\ RecomputedSuspend
    /\ last.who = "d1"
    /\ ~last.ret
    /\ constraint["d1"] = 1
    /\ ~ignore_children["d1"]
    /\ constraint["c1"] # 0
    /\ td["c2"].effective_constraint_ns # 0
    /\ lat["d1"].suspend_latency_ns + lat["d1"].resume_latency_ns = 1000

\* A thread is at an access of td made under dev->power.lock.
AtLockedAccess(t) == pc[t] = "locked"

\* A thread is at the final store into td (lines 86-117).
AtFinalStore(t) == pc[t] = "store"

\* C10 as stated: every access of td made by default_suspend_ok(), the
\* final store included, is made by a thread that holds dev->power.lock.
C10_LockHeldThroughout ==
    \A t \in Thread :
        (AtLockedAccess(t) \/ AtFinalStore(t)) => lock[tdev[t]] = t

\* C10, amended: dev->power.lock is held over the test of the flag, the
\* read of cached_suspend_ok, the reset of td and the read of the device's
\* own constraint; the walk over the children and the final store of
\* effective_constraint_ns and cached_suspend_ok are made after the lock
\* has been released.
C10_LockHeldOverResetOnly ==
    \A t \in Thread :
        /\ AtLockedAccess(t) => lock[tdev[t]] = t
        /\ pc[t] \in {"unlock", "unlock_ret"} => lock[tdev[t]] = t
        /\ pc[t] \in {"fold", "store"} => lock[tdev[t]] # t

\* Thread 1 is about to store its result for d1 while thread 2 holds the
\* lock of d1.
C10_Witness ==
    /\ AtFinalStore(1)
    /\ tdev[1] = "d1"
    /\ tns[1] = 1000
    /\ lock["d1"] = 2

\* C11: always_on_power_down_ok() returns false whatever the domain holds
\* and changes no field of the domain and no flag of its parents; a device
\* of a domain under the always-on governor is evaluated by
\* default_suspend_ok() with the result the QoS-driven governor gives.
C11_AlwaysOnRefuses ==
    /\ last.op = "always_on_power_down_ok" =>
          /\ ~last.ret
          /\ genpd[last.who] = last.pre
          /\ \A p \in Range(ParentList(last.who)) :
                genpd[p].max_off_time_changed = last.parents[p]
    /\ (RecomputedSuspend /\ gov[DomainOf(last.who)] = "always_on") =>
          /\ last.ret = td[last.who].cached_suspend_ok
          /\ ~td[last.who].constraint_changed
          /\ IF constraint[last.who] = 0
             THEN ~last.ret /\ td[last.who].effective_constraint_ns = 0
             ELSE SuspendOutcome(last.who, FoldedMinimum(last.who))

\* P is refused although its subdomain and its device leave its state 0
\* enough time, and its parent G, evaluated before, stays clean.
C11_Witness ==
    /\ last.op = "always_on_power_down_ok"
    /\ last.who = "P"
    /\ Qualifies("P", 0)
    /\ genpd["D"].max_off_time_ns = 400
    /\ td["c2"].effective_constraint_ns = 650
    /\ ~genpd["D"].max_off_time_changed
    /\ ~genpd["G"].max_off_time_changed

\* What a step that calls default_power_down_ok(g) may change outside the
\* record of g: the flag of a direct parent, from false to true.
PowerDownFrame(g) ==
    /\ \A x \in Dom \ {g} :
          IF x \in Range(ParentList(g))
          THEN \/ genpd'[x] = genpd[x]
               \/ /\ ~genpd[x].max_off_time_changed
                  /\ genpd'[x] = [genpd[x] EXCEPT !.max_off_time_changed = TRUE]
          ELSE genpd'[x] = genpd[x]
    /\ td' = td
    /\ constraint' = constraint

\* What a step that calls default_suspend_ok(dev) may change: td of dev.
SuspendFrame(dev) ==
    /\ genpd' = genpd
    /\ \A d \in DomDev \ {dev} : td'[d] = td[d]
    /\ constraint' = constraint

\* C12: an evaluation of a domain changes, outside the record of the domain,
\* only max_off_time_changed of its direct parents and only to true; an
\* evaluation of a device changes no domain and no other device; so no
\* evaluator clears the flag of a record it is not evaluating.
C12_EvaluatorFrame ==
    [][/\ last'.op = "power_down_ok" => PowerDownFrame(last'.who)
       /\ last'.op = "suspend_ok" => SuspendFrame(last'.who)]_vars

\* D has been recomputed while P and G were clean: P is dirty now, and G,
\* two levels up, is still clean.
C12_Witness ==
    /\ RecomputedPowerDown
    /\ last.who = "D"
    /\ genpd["D"].max_off_time_ns = 400
    /\ genpd["P"].max_off_time_changed
    /\ genpd["P"].cached_power_down_ok
    /\ ~genpd["G"].max_off_time_changed

\* What a device-tree child offers to the walk of its parent: its stored
\* budget when it is in a domain, its own constraint otherwise.
Offers(c) ==
    IF InDomain(c) THEN td[c].effective_constraint_ns
    ELSE constraint[c] * NSEC_PER_USEC

ChildrenUnconstrained(dev) ==
    \A c \in Range(ChildList(dev)) : Offers(c) = PM_QOS_RESUME_LATENCY_NO_CONSTRAINT_NS

OffersUnconstrained(dev) ==
    /\ last.ret
    /\ td[dev].cached_suspend_ok
    /\ td[dev].effective_constraint_ns = PM_QOS_RESUME_LATENCY_NO_CONSTRAINT_NS

\* C13 as stated: a recomputing default_suspend_ok() on a device whose
\* device-tree children all offer "no constraint" stores "no constraint",
\* caches true and returns true.
C13_ChildrenUnconstrained ==
    (RecomputedSuspend /\ ChildrenUnconstrained(last.who)) =>
        OffersUnconstrained(last.who)

\* C13, amended: a recomputing default_suspend_ok() on a device that has no
\* constraint of its own and whose device-tree children all offer "no
\* constraint" stores "no constraint", caches true and returns true.
C13_AllUnconstrained ==
    (/\ RecomputedSuspend
     /\ constraint[last.who] = PM_QOS_RESUME_LATENCY_NO_CONSTRAINT
     /\ ChildrenUnconstrained(last.who)) =>
        OffersUnconstrained(last.who)

\* d1 walks its children, c1 without a constraint and c2 with "no
\* constraint" stored by its own evaluation, and stores "no constraint".
C13_Witness ==
    /\ RecomputedSuspend
    /\ last.who = "d1"
    /\ ~ignore_children["d1"]
    /\ constraint["d1"] = PM_QOS_RESUME_LATENCY_NO_CONSTRAINT
    /\ ChildrenUnconstrained("d1")
    /\ td["c2"].cached_suspend_ok
    /\ OffersUnconstrained("d1")

\* A step leaves dev waiting for its evaluation, with the same td, latencies
\* and ignore_children and the same constraint of its own, and makes no
\* device-tree child offer less: a child outside a domain has a constraint
\* above 0 that is raised or kept, a child in a domain has stored a budget no
\* smaller than the one it had.
ChildRaised(dev) ==
    /\ td[dev].constraint_changed
    /\ td'[dev] = td[dev]
    /\ constraint'[dev] = constraint[dev]
    /\ lat' = lat
    /\ ignore_children' = ignore_children
    /\ \A c \in Range(ChildList(dev)) :
          /\ Offers(c) <= Offers(c)'
          /\ (~InDomain(c) /\ constraint'[c] # constraint[c]) => constraint[c] > 0

\* A step leaves dev waiting for its evaluation and raises or keeps its own
\* constraint, above 0, with everything else the evaluation reads as it was:
\* what dev then stores is what it offers to the device above it.
OwnRaised(dev) ==
    /\ td[dev].constraint_changed
    /\ 0 < constraint[dev]
    /\ constraint[dev] <= constraint'[dev]
    /\ td'[dev] = td[dev]
    /\ lat' = lat
    /\ ignore_children' = ignore_children
    /\ \A c \in Range(ChildList(dev)) : Offers(c)' = Offers(c)

NoLess(r1, r2) ==
    /\ r1.td.effective_constraint_ns <= r2.td.effective_constraint_ns
    /\ r1.ret => r2.ret

\* C14: default_suspend_ok() is monotone in what a descendant is constrained
\* to.  Between two configurations of a device that differ in the constraint
\* of one device-tree child outside a domain (v1 <= v2, v1 above 0), or in
\* the budget a child in a domain has stored, the evaluation with the larger
\* value stores no smaller budget and returns true when the other one does;
\* and the budget a child in a domain stores is itself monotone in the
\* constraint of that child.
C14_BudgetMonotone ==
    [][\A dev \in DomDev :
          (ChildRaised(dev) \/ OwnRaised(dev)) =>
              NoLess(SuspendOkResult(dev), SuspendOkResult(dev)')]_vars

\* d1, without a constraint of its own, has been evaluated with c1
\* constrained to 1 usec and keeps 500 ns of it.
C14_Witness ==
    /\ RecomputedSuspend
    /\ last.who = "d1"
    /\ ~ignore_children["d1"]
    /\ constraint["d1"] = PM_QOS_RESUME_LATENCY_NO_CONSTRAINT
    /\ constraint["c1"] = 1
    /\ td["c2"].effective_constraint_ns = PM_QOS_RESUME_LATENCY_NO_CONSTRAINT_NS
    /\ td["d1"].effective_constraint_ns = 500
    /\ last.ret

\* What an evaluation of dev from scratch leaves in td, from the constraints
\* and the stored budgets as they are now.
ExpectedTd(dev) ==
    LET m == IF ignore_children[dev] THEN constraint[dev] * NSEC_PER_USEC
             ELSE FoldedMinimum(dev)
        b == m - (lat[dev].suspend_latency_ns + lat[dev].resume_latency_ns)
    IN  IF m = PM_QOS_RESUME_LATENCY_NO_CONSTRAINT_NS
        THEN [constraint_changed |-> FALSE, cached_suspend_ok |-> TRUE,
              effective_constraint_ns |-> PM_QOS_RESUME_LATENCY_NO_CONSTRAINT_NS]
        ELSE IF constraint[dev] = 0 \/ m = 0 \/ b <= 0
        THEN [constraint_changed |-> FALSE, cached_suspend_ok |-> FALSE,
              effective_constraint_ns |-> 0]
        ELSE [constraint_changed |-> FALSE, cached_suspend_ok |-> TRUE,
              effective_constraint_ns |-> b]

\* No device-tree child of dev that is in a domain has been evaluated: its
\* flag is set and its budget is "no constraint", as at registration.
ChildrenAtRest(dev) ==
    \A c \in Range(ChildList(dev)) :
        InDomain(c) =>
            /\ td[c].constraint_changed
            /\ td[c].effective_constraint_ns = PM_QOS_RESUME_LATENCY_NO_CONSTRAINT_NS

\* C15 as stated: with calls of default_suspend_ok() on one device running
\* in several threads and QoS updates in between, once every call has
\* returned and constraint_changed is false, cached_suspend_ok and
\* effective_constraint_ns are what an evaluation from scratch gives.
C15_CleanCacheAfterRace ==
    \A dev \in DomDev :
        (/\ \A t \in Thread : pc[t] = "idle"
         /\ ~td[dev].constraint_changed
         /\ ChildrenAtRest(dev)) =>
            td[dev] = ExpectedTd(dev)

\* C16: a recomputing default_power_down_ok() calls
\* __default_power_down_ok() for at most state_count states, starting at the
\* deepest and going down by one each time, never below 0; state_idx and
\* cached_power_down_state_idx end at the last state tried, within
\* 0 .. state_count - 1.
C16_SearchBounded ==
    RecomputedPowerDown =>
        LET g == last.who
            n == Len(last.tried)
        IN  /\ state_count(g) >= 1
            /\ 1 <= n /\ n <= state_count(g)
            /\ last.tried[1] = state_count(g) - 1
            /\ \A i \in 1..n : last.tried[i] \in 0..(state_count(g) - 1)
            /\ \A i \in 1..(n - 1) : last.tried[i + 1] = last.tried[i] - 1
            /\ genpd[g].state_idx = last.tried[n]
            /\ genpd[g].cached_power_down_state_idx = last.tried[n]
            /\ genpd[g].state_idx \in 0..(state_count(g) - 1)

\* P has tried both of its states and stays powered: the search has ended at
\* state 0 without going below it.
C16_Witness ==
    /\ RecomputedPowerDown
    /\ last.who = "P"
    /\ last.tried = <<1, 0>>
    /\ ~last.ret
    /\ genpd["P"].state_idx = 0

\* C17: a recomputing default_power_down_ok() on a domain that has a device
\* with a stored budget of 0, or a subdomain with max_off_time_ns = 0,
\* returns false and caches cached_power_down_ok = false, whatever the other
\* devices and subdomains hold (the latencies of every state are 0 or more).
C17_ZeroBudgetVeto ==
    (/\ RecomputedPowerDown
     /\ \A s \in 0..(state_count(last.who) - 1) :
           /\ GenpdStates(last.who)[s].power_off_latency_ns >= 0
           /\ GenpdStates(last.who)[s].power_on_latency_ns >= 0
     /\ \/ \E d \in Range(DevList(last.who)) : td[d].effective_constraint_ns = 0
        \/ \E sd \in Range(SubdomainList(last.who)) : genpd[sd].max_off_time_ns = 0) =>
        /\ ~last.ret
        /\ ~genpd[last.who].cached_power_down_ok
        /\ last.tried[Len(last.tried)] = 0

\* P, whose own device is unconstrained, has been recomputed over the
\* subdomain D holding a budget of 0, and stays powered.
C17_Witness ==
    /\ RecomputedPowerDown
    /\ last.who = "P"
    /\ genpd["D"].max_off_time_ns = 0
    /\ td["c2"].effective_constraint_ns = PM_QOS_RESUME_LATENCY_NO_CONSTRAINT_NS
    /\ ~last.ret

\* D has been recomputed over d1, which may not suspend and has stored 0.
C17_WitnessDevice ==
    /\ RecomputedPowerDown
    /\ last.who = "D"
    /\ td["d1"].effective_constraint_ns = 0
    /\ ~td["d1"].constraint_changed
    /\ ~last.ret

\* C18: after a recomputing default_power_down_ok() that returns false the
\* domain holds max_off_time_ns = -1, the "no constraint" value, and state 0
\* in state_idx and cached_power_down_state_idx: a state that fails stores
\* no budget.
C18_RefusalOffersUnconstrained ==
    (RecomputedPowerDown /\ ~last.ret) =>
        /\ genpd[last.who].max_off_time_ns = -1
        /\ genpd[last.who].cached_power_down_state_idx = 0
        /\ genpd[last.who].state_idx = 0
        /\ ~genpd[last.who].cached_power_down_ok

\* D has tried both states and refuses because d1 may not suspend; it
\* offers "no constraint" to P, whose own device has a budget of 650.
C18_Witness ==
    /\ RecomputedPowerDown
    /\ last.who = "D"
    /\ ~last.ret
    /\ last.tried = <<1, 0>>
    /\ td["d1"].effective_constraint_ns = 0
    /\ td["c2"].effective_constraint_ns = 650
    /\ genpd["D"].max_off_time_ns = -1
    /\ genpd["P"].max_off_time_changed

\* C19: after every call of default_power_down_ok(), recomputing or not,
\* max_off_time_ns of the domain is -1 or above 0, and then also above the
\* power-off latency of the state the call has left in state_idx: a budget
\* the domain offers is never 0 and never negative but for the -1.
C19_OfferedBudgetPositive ==
    last.op = "power_down_ok" =>
        LET g == last.who
        IN  \/ genpd[g].max_off_time_ns = -1
            \/ /\ genpd[g].max_off_time_ns > 0
               /\ genpd[g].max_off_time_ns >
                     GenpdStates(g)[genpd[g].state_idx].power_off_latency_ns
               /\ last.ret

\* P has chosen state 0 (60, 80) over a device budget of 650, which its
\* deeper state (550, 100) does not fit, and offers 650 - 80.
C19_Witness ==
    /\ RecomputedPowerDown
    /\ last.who = "P"
    /\ last.ret
    /\ last.tried = <<1, 0>>
    /\ td["c2"].effective_constraint_ns = 650
    /\ genpd["P"].max_off_time_ns = 570

\* C20: a recomputing default_suspend_ok() on a device with ignore_children
\* set stores and returns what the constraint of the device alone gives
\* after its own latencies, whatever its device-tree children hold.
C20_IgnoreChildren ==
    (RecomputedSuspend /\ ignore_children[last.who]) =>
        IF constraint[last.who] = 0
        THEN /\ ~last.ret
             /\ ~td[last.who].cached_suspend_ok
             /\ td[last.who].effective_constraint_ns = 0
        ELSE SuspendOutcome(last.who, constraint[last.who] * NSEC_PER_USEC)

\* d1 ignores its children: c1 is constrained to 0 and c2 has been evaluated
\* and has stored 0, and d1 keeps 500 ns of its own 1 usec.
C20_Witness ==
    /\ RecomputedSuspend
    /\ last.who = "d1"
    /\ ignore_children["d1"]
    /\ constraint["d1"] = 1
    /\ constraint["c1"] = 0
    /\ ~td["c2"].constraint_changed
    /\ td["c2"].effective_constraint_ns = 0
    /\ last.ret
    /\ td["d1"].effective_constraint_ns = 500

====
